---------------------------- MODULE Spec2Model ----------------------------
(***************************************************************************)
(* A model of framework/train.py, the training script of challenge-ens.    *)
(*                                                                         *)
(* The script is one sequential program.  Its parts are modelled as        *)
(* separate specifications over one set of variables, one per concern:     *)
(*                                                                         *)
(*   SpecSplit    lines 18-21, 71-83   seeding, shuffle, hold-out split    *)
(*   SpecWeights  lines 101-105        the class weight vector             *)
(*   SpecStream   lines 76-99, 113-115 the repeating, batched train stream *)
(*   SpecDir      lines 49-74, 107-111 config loading and the run          *)
(*                                     directory, two invocations          *)
(*   SpecTrain    lines 39-46, 117-165 model.fit and its callbacks         *)
(*                                                                         *)
(* Each specification leaves the variables of the other parts at their     *)
(* idle values.                                                            *)
(***************************************************************************)
EXTENDS Integers, Sequences, FiniteSets

VARIABLES
    \* ---- SpecSplit: two invocations of the script over one directory
    listing,        \* what glob('train/imgs/*.tif') returns (line 76)
    pcS,            \* pcS[p]: position of invocation p
    rng,            \* rng[p]: state of the `random` module's generator
    n_cpus,         \* rng-independent per-invocation input (line 71)
    train_files,    \* train_files[p] (lines 76, 78, 83)
    permuted,       \* history: train_files[p] as line 78 left it
    val_files,      \* val_files[p] (line 83)
    valset_size,    \* valset_size[p] (line 81)
    trainset_size,  \* trainset_size[p] (line 82)
    \* ---- SpecWeights
    N_CLASSES,          \* LCD.N_CLASSES
    TRAIN_CLASS_COUNTS, \* LCD.TRAIN_CLASS_COUNTS, indexed 0..N_CLASSES-1
    class_weight,       \* class_weight (lines 103-104), rationals
    pcW,
    \* ---- SpecStream
    ds_train,       \* the files train_dataset is built from (line 85)
    batch_size,     \* config.batch_size (line 93)
    shuffle_rng,    \* the generator of .shuffle(seed=SEED) (line 91)
    it,             \* the iterator in use over train_dataset
    prefetched,     \* batches .prefetch() holds ready (line 94)
    sample_batch,   \* sample_batch (line 115)
    batch,          \* the batch drawn last
    drawn,          \* batches drawn so far
    exhausted,      \* a draw met the end of the stream
    pcT,
    \* ---- SpecDir: two invocations of the script over one xp_rootdir
    clock,          \* the wall clock, in seconds
    fs,             \* the directories that exist at or under xp_rootdir
    root_existed,   \* history: xp_rootdir was a directory at the start
    writable,       \* whether directories can be created under xp_rootdir
    config_fault,   \* config_fault[p]: what is wrong with p's configuration
    pcD,            \* pcD[p]: position of invocation p
    xp_dir,         \* xp_dir[p]: the second its name was formatted at
    made,           \* history: made[p], the directories p created
    error,          \* error[p]: the exception that ended p
    \* ---- SpecTrain: model.fit and its callbacks
    epochs,             \* config.epochs (line 159)
    steps_per_epoch,    \* line 161
    validation_steps,   \* line 163
    pcF,                \* position of the fit loop
    epoch,              \* the epoch under way, counted from 0
    step,               \* optimizer updates made in this epoch
    val_step,           \* validation passes made in this epoch
    updates,            \* optimizer updates made in all: the weights' version
    val_loss,           \* the epoch's validation loss, in units of min_delta
    lr,                 \* the optimizer's learning rate, a rational
    best,               \* ReduceLROnPlateau.best: <<>> is np.Inf
    wait,               \* ReduceLROnPlateau.wait
    plots,              \* plots written: epoch -> version of the weights read
    checkpoints,        \* checkpoints kept: path -> version of the weights
    saves,              \* checkpoints written
    csv_rows,           \* rows of fit_logs.csv
    events,             \* history: what happened in this epoch, in order
    begun_early,        \* history: an epoch began before the last one ended
    epoch_ends,         \* history: how often on_epoch_end fired
    flat,               \* history: epochs since the last improvement
    lr_at_improve       \* history: lr when the last improvement was seen

splitVars == <<listing, pcS, rng, n_cpus, train_files, permuted, val_files,
               valset_size, trainset_size>>

weightVars == <<N_CLASSES, TRAIN_CLASS_COUNTS, class_weight, pcW>>

streamVars == <<ds_train, batch_size, shuffle_rng, it, prefetched,
                sample_batch, batch, drawn, exhausted, pcT>>

dirVars == <<clock, fs, root_existed, writable, config_fault, pcD, xp_dir,
             made, error>>

trainVars == <<epochs, steps_per_epoch, validation_steps, pcF, epoch, step,
               val_step, updates, val_loss, lr, best, wait, plots,
               checkpoints, saves, csv_rows, events, begun_early, epoch_ends,
               flat, lr_at_improve>>

vars == <<splitVars, weightVars, streamVars, dirVars, trainVars>>

\* What the actions of one part leave alone: the other parts.
notSplitVars == <<weightVars, streamVars, dirVars, trainVars>>

notWeightVars == <<splitVars, streamVars, dirVars, trainVars>>

notStreamVars == <<splitVars, weightVars, dirVars, trainVars>>

notDirVars == <<splitVars, weightVars, streamVars, trainVars>>

notTrainVars == <<splitVars, weightVars, streamVars, dirVars>>

Procs == {1, 2}

(***************************************************************************)
(* Bounds of the model.                                                    *)
(***************************************************************************)
MaxFiles == 21
MaxClasses == 5
MaxCount == 4
MaxStreamFiles == 11
MaxBatch == 3
ExtraDraws == 3
PrefetchDepth == 2
MaxClock == 1
MaxEpochs == 22
MaxLoss == 2

(***************************************************************************)
(* Helpers on sequences.                                                   *)
(***************************************************************************)
Range(s) == {s[i] : i \in 1..Len(s)}

\* Python's s[a:b] for 0 <= a <= b <= len(s)
Slice(s, a, b) == [i \in 1..(b - a) |-> s[a + i]]

NoDuplicates(s) == \A i, j \in 1..Len(s) : i # j => s[i] # s[j]

(***************************************************************************)
(* The `random` module.  random.seed(SEED) puts the generator in a state   *)
(* that is a function of SEED; every draw advances it deterministically.   *)
(* The Mersenne Twister is replaced by a full-period linear congruential   *)
(* generator on 8 bits: what the claims rest on is that a draw is a        *)
(* function of the generator state, not which function.                    *)
(***************************************************************************)
SEED == 42

SeedState(seed) == (seed * 5 + 1) % 256

RngStep(s) == (s * 37 + 11) % 256

RECURSIVE BitLength(_)
BitLength(n) == IF n = 0 THEN 0 ELSE 1 + BitLength(n \div 2)

\* Random.getrandbits(k): advances the generator, returns k bits of it
GetRandBits(s, k) == [state |-> RngStep(s), val |-> RngStep(s) % (2 ^ k)]

\* Random._randbelow_with_getrandbits(n), n > 0: rejection sampling
RECURSIVE RandBelow(_, _)
RandBelow(s, n) ==
    LET r == GetRandBits(s, BitLength(n))
    IN  IF r.val >= n THEN RandBelow(r.state, n) ELSE r

\* random.sample(population, k) with k = len(population): the pool branch
\* (n <= setsize always holds when k = n).  i counts the picks made.
RECURSIVE SamplePool(_, _, _, _)
SamplePool(pool, result, i, s) ==
    LET n == Len(pool)
    IN  IF i = n THEN [state |-> s, val |-> result]
        ELSE LET r == RandBelow(s, n - i)
                 j == r.val + 1
             IN  SamplePool([pool EXCEPT ![j] = pool[n - i]],
                            Append(result, pool[j]), i + 1, r.state)

Sample(population, s) == SamplePool(population, <<>>, 0, s)

\* A hold-out size rounded up instead of truncated.
ValsetSizeCeil(n) == (n + 9) \div 10

\* int(len(train_files) * 0.1), line 81.  0.1 is the double just above
\* 1/10, and a product n * 0.1 rounds to a double that is never below the
\* representable n/10, so truncation gives n \div 10 for every list length.
ValsetSize(n) == n \div 10

(***************************************************************************)
(* SpecSplit: lines 18-21 and 71-83, run by two invocations.               *)
(***************************************************************************)
Listings ==
    {[i \in 1..n |-> ((i + r - 1) % n) + 1] : n \in 1..MaxFiles, r \in 0..1}
        \cup {<<>>}

SplitStart ==
    /\ listing \in Listings
    /\ pcS = [p \in Procs |-> "import"]
    /\ rng \in [Procs -> {0, 1}]
    /\ n_cpus \in [Procs -> {1, 4}]
    /\ train_files = [p \in Procs |-> <<>>]
    /\ permuted = [p \in Procs |-> <<>>]
    /\ val_files = [p \in Procs |-> <<>>]
    /\ valset_size = [p \in Procs |-> 0]
    /\ trainset_size = [p \in Procs |-> 0]

\* The seeding call left out: the generator keeps its start state.
SeedRandomOmitted(p) ==
    /\ pcS[p] = "import"
    /\ pcS' = [pcS EXCEPT ![p] = "glob"]
    /\ UNCHANGED <<listing, rng, n_cpus, train_files, permuted, val_files,
                   valset_size, trainset_size>>
    /\ UNCHANGED notSplitVars

\* line 21: random.seed(SEED).  Before it the generator holds whatever the
\* interpreter seeded it with from the operating system.
SeedRandom(p) ==
    /\ pcS[p] = "import"
    /\ rng' = [rng EXCEPT ![p] = SeedState(SEED)]
    /\ pcS' = [pcS EXCEPT ![p] = "glob"]
    /\ UNCHANGED <<listing, n_cpus, train_files, permuted, val_files,
                   valset_size, trainset_size>>
    /\ UNCHANGED notSplitVars

\* line 76: train_files = list(config.dataset_folder.glob(...))
Glob(p) ==
    /\ pcS[p] = "glob"
    /\ train_files' = [train_files EXCEPT ![p] = listing]
    /\ pcS' = [pcS EXCEPT ![p] = "shuffle"]
    /\ UNCHANGED <<listing, rng, n_cpus, permuted, val_files, valset_size,
                   trainset_size>>
    /\ UNCHANGED notSplitVars

\* line 78: train_files = random.sample(train_files, len(train_files))
Shuffle(p) ==
    /\ pcS[p] = "shuffle"
    /\ LET r == Sample(train_files[p], rng[p])
       IN  /\ train_files' = [train_files EXCEPT ![p] = r.val]
           /\ permuted' = [permuted EXCEPT ![p] = r.val]
           /\ rng' = [rng EXCEPT ![p] = r.state]
    /\ pcS' = [pcS EXCEPT ![p] = "holdout"]
    /\ UNCHANGED <<listing, n_cpus, val_files, valset_size, trainset_size>>
    /\ UNCHANGED notSplitVars

\* lines 81-83
HoldOut(p) ==
    /\ pcS[p] = "holdout"
    /\ LET n == Len(train_files[p])
           v == ValsetSize(n)
       IN  /\ valset_size' = [valset_size EXCEPT ![p] = v]
           /\ trainset_size' = [trainset_size EXCEPT ![p] = n - v]
           /\ train_files' = [train_files EXCEPT ![p] = Slice(train_files[p], v, n)]
           /\ val_files' = [val_files EXCEPT ![p] = Slice(train_files[p], 0, v)]
    /\ pcS' = [pcS EXCEPT ![p] = "split"]
    /\ UNCHANGED <<listing, rng, n_cpus, permuted>>
    /\ UNCHANGED notSplitVars

\* The part is not run: its variables rest.
SplitIdle ==
    /\ listing = <<>>
    /\ pcS = [p \in Procs |-> "idle"]
    /\ rng = [p \in Procs |-> 0]
    /\ n_cpus = [p \in Procs |-> 1]
    /\ train_files = [p \in Procs |-> <<>>]
    /\ permuted = [p \in Procs |-> <<>>]
    /\ val_files = [p \in Procs |-> <<>>]
    /\ valset_size = [p \in Procs |-> 0]
    /\ trainset_size = [p \in Procs |-> 0]

(***************************************************************************)
(* Lines 101-105: the class weight vector.                                 *)
(*                                                                         *)
(* numpy computes it in float64; the model computes it in exact rational   *)
(* arithmetic, a rational being a record [n, d] in lowest terms with       *)
(* d > 0.  Rounding of the float64 operations is not modelled.             *)
(***************************************************************************)
RECURSIVE GCD(_, _)
GCD(a, b) == IF b = 0 THEN a ELSE GCD(b, a % b)

Abs(x) == IF x < 0 THEN 0 - x ELSE x

Rat(n, d) ==
    LET g == GCD(Abs(n), Abs(d))
        sg == IF d < 0 THEN 0 - 1 ELSE 1
    IN  [n |-> sg * (n \div g), d |-> sg * (d \div g)]

RatOfInt(k) == [n |-> k, d |-> 1]

RatMul(x, y) == Rat(x.n * y.n, x.d * y.d)

RatDiv(x, y) == Rat(x.n * y.d, x.d * y.n)

RatAdd(x, y) == Rat(x.n * y.d + y.n * x.d, x.d * y.d)

RatLess(x, y) == x.n * y.d < y.n * x.d

\* array[2:].sum() over an array indexed 0..n-1
RECURSIVE SumFrom(_, _, _)
SumFrom(a, i, n) == IF i >= n THEN 0 ELSE a[i] + SumFrom(a, i + 1, n)

\* The sum taken over the whole table, reserved classes included.
CountsSumAll(counts, n) == SumFrom(counts, 0, n)

\* LCD.TRAIN_CLASS_COUNTS[2:].sum(), line 104
CountsSum(counts, n) == SumFrom(counts, 2, n)

\* The divisor taken as the number of all classes.
NonReservedAll(n) == n

\* (LCD.N_CLASSES-2), line 104
NonReserved(n) == n - 2

\* One entry of the right-hand side of line 104:
\* (1 / counts[i]) * counts[2:].sum() / (N_CLASSES-2)
WeightOf(counts, n, i) ==
    RatDiv(RatMul(RatDiv(RatOfInt(1), RatOfInt(counts[i])),
                  RatOfInt(CountsSum(counts, n))),
           RatOfInt(NonReserved(n)))

\* The tables the weights are computed for: positive counts for the
\* classes that matter, any counts for the two reserved ones.
CountValues == (1..MaxCount) \cup {10, 40}

CountTables(n) ==
    {[i \in 0..(n - 1) |-> IF i < 2 THEN r[i + 1] ELSE c[i - 1]] :
        r \in {<<0, 0>>, <<100, 50>>}, c \in [1..(n - 2) -> CountValues]}

WeightsStart ==
    /\ N_CLASSES \in 3..MaxClasses
    /\ TRAIN_CLASS_COUNTS \in CountTables(N_CLASSES)
    /\ class_weight = <<>>
    /\ pcW = "zeros"

WeightsIdle ==
    /\ N_CLASSES = 0
    /\ TRAIN_CLASS_COUNTS = <<>>
    /\ class_weight = <<>>
    /\ pcW = "idle"

\* line 103: class_weight = np.zeros((LCD.N_CLASSES,))
ZeroWeights ==
    /\ pcW = "zeros"
    /\ class_weight' = [i \in 0..(N_CLASSES - 1) |-> RatOfInt(0)]
    /\ pcW' = "fill"
    /\ UNCHANGED <<N_CLASSES, TRAIN_CLASS_COUNTS>>
    /\ UNCHANGED notWeightVars

\* line 104: class_weight[2:] = ...
FillWeights ==
    /\ pcW = "fill"
    /\ class_weight' =
           [i \in 0..(N_CLASSES - 1) |->
               IF i >= 2 THEN WeightOf(TRAIN_CLASS_COUNTS, N_CLASSES, i)
               ELSE class_weight[i]]
    /\ pcW' = "done"
    /\ UNCHANGED <<N_CLASSES, TRAIN_CLASS_COUNTS>>
    /\ UNCHANGED notWeightVars

(***************************************************************************)
(* Lines 85-94 and 113-115: train_dataset, a tf.data pipeline              *)
(*   from_tensor_slices(files).map(..).map(..).shuffle(1024, seed=SEED)    *)
(*     .repeat().batch(batch_size).prefetch(AUTOTUNE)                      *)
(* An iterator over it is a record: buf, the shuffle buffer; pos, how many *)
(* files of the current pass went into the buffer; rng, the shuffle        *)
(* generator; first_call, whether the current pass has yielded nothing     *)
(* yet; ended, whether the iterator met its end; passes, the passes begun. *)
(* The two map stages keep one element per file, in order.                 *)
(***************************************************************************)
BUFFER_SIZE == 1024

Min(a, b) == IF a < b THEN a ELSE b

NoIterator == [buf |-> <<>>, pos |-> 0, rng |-> 0, first_call |-> TRUE,
               ended |-> TRUE, passes |-> 0]

\* What a stage yields: an element (or a batch of them), or the end
Yield(x) == [end |-> FALSE, val |-> x]

EndOfSequence == [end |-> TRUE, val |-> <<>>]

NewIterator(s) ==
    [buf |-> <<>>, pos |-> 0, rng |-> s, first_call |-> TRUE,
     ended |-> FALSE, passes |-> 1]

RemoveAt(q, j) == [i \in 1..(Len(q) - 1) |-> IF i < j THEN q[i] ELSE q[i + 1]]

\* .shuffle(): fill the buffer from the input, then yield a random slot
\* of it.  The result is the iterator, and val: the element or the end.
ShuffleNext(files, st) ==
    LET room == BUFFER_SIZE - Len(st.buf)
        take == Min(room, Len(files) - st.pos)
        buf == st.buf \o Slice(files, st.pos, st.pos + take)
    IN  IF buf = <<>>
        THEN [st |-> [st EXCEPT !.pos = st.pos + take], out |-> EndOfSequence]
        ELSE LET r == RandBelow(st.rng, Len(buf))
             IN  [st |-> [st EXCEPT !.buf = RemoveAt(buf, r.val + 1),
                                    !.pos = st.pos + take,
                                    !.rng = r.state],
                  out |-> Yield(buf[r.val + 1])]

\* The pipeline without .repeat(): the stream ends with its first pass.
RepeatOmitted(files, st) ==
    LET r == ShuffleNext(files, st)
    IN  IF r.out.end THEN [st |-> [r.st EXCEPT !.ended = TRUE], out |-> r.out]
        ELSE r

\* .repeat(): when a pass ends, begin the next one; a pass that ends
\* before it yielded anything ends the stream.
RECURSIVE RepeatNext(_, _)
RepeatNext(files, st) ==
    LET r == ShuffleNext(files, st)
    IN  IF ~r.out.end
        THEN [st |-> [r.st EXCEPT !.first_call = FALSE], out |-> r.out]
        ELSE IF st.first_call
        THEN [st |-> [r.st EXCEPT !.ended = TRUE], out |-> EndOfSequence]
        ELSE RepeatNext(files, [r.st EXCEPT !.buf = <<>>, !.pos = 0,
                                            !.first_call = TRUE,
                                            !.passes = st.passes + 1])

\* .batch(size): up to size consecutive elements; fewer when the input
\* ends, and the end when it ends before the first
RECURSIVE BatchCollect(_, _, _, _)
BatchCollect(files, st, size, acc) ==
    IF Len(acc) = size THEN [st |-> st, out |-> Yield(acc)]
    ELSE LET r == RepeatNext(files, st)
         IN  IF r.out.end
             THEN [st |-> r.st,
                   out |-> IF acc = <<>> THEN EndOfSequence ELSE Yield(acc)]
             ELSE BatchCollect(files, r.st, size, Append(acc, r.out.val))

BatchNext(files, st, size) ==
    IF st.ended THEN [st |-> st, out |-> EndOfSequence]
    ELSE BatchCollect(files, st, size, <<>>)

\* lines 76-83 on a listing: the files train_dataset is built from
TrainFilesOf(files) ==
    LET perm == Sample(files, SeedState(SEED)).val
    IN  Slice(perm, ValsetSize(Len(perm)), Len(perm))

\* steps_per_epoch of model.fit, line 161
TrainSteps == Len(ds_train) \div batch_size

StreamStart ==
    /\ \E n \in 0..MaxStreamFiles : ds_train = TrainFilesOf([i \in 1..n |-> i])
    /\ batch_size \in 1..MaxBatch
    /\ shuffle_rng = SeedState(SEED)
    /\ it = NoIterator
    /\ prefetched = <<>>
    /\ sample_batch = <<>>
    /\ batch = <<>>
    /\ drawn = 0
    /\ exhausted = FALSE
    /\ pcT = "take"

StreamIdle ==
    /\ ds_train = <<>>
    /\ batch_size = 1
    /\ shuffle_rng = 0
    /\ it = NoIterator
    /\ prefetched = <<>>
    /\ sample_batch = <<>>
    /\ batch = <<>>
    /\ drawn = 0
    /\ exhausted = FALSE
    /\ pcT = "idle"

\* line 114: train_dataset.take(1) is iterated
TakeIterator ==
    /\ pcT = "take"
    /\ it' = NewIterator(shuffle_rng)
    /\ prefetched' = <<>>
    /\ pcT' = "taking"
    /\ UNCHANGED <<ds_train, batch_size, shuffle_rng, sample_batch, batch,
                   drawn, exhausted>>
    /\ UNCHANGED notStreamVars

\* line 94: the prefetch thread prepares the next batch ahead of the
\* consumer, while it has room
Prefetch ==
    /\ it # NoIterator
    /\ Len(prefetched) < PrefetchDepth
    /\ IF prefetched = <<>> THEN TRUE ELSE ~prefetched[Len(prefetched)].end
    /\ LET r == BatchNext(ds_train, it, batch_size)
       IN  /\ it' = r.st
           /\ prefetched' = Append(prefetched, r.out)
           /\ shuffle_rng' = r.st.rng
    /\ UNCHANGED <<ds_train, batch_size, sample_batch, batch, drawn,
                   exhausted, pcT>>
    /\ UNCHANGED notStreamVars

\* lines 114-118: the loop body keeps the first five samples of the one
\* batch; over an empty stream it never runs and line 118 raises NameError
TakeSampleBatch ==
    /\ pcT = "taking"
    /\ prefetched # <<>>
    /\ IF Head(prefetched).end
       THEN /\ exhausted' = TRUE
            /\ pcT' = "aborted"
            /\ UNCHANGED <<sample_batch, batch, drawn>>
       ELSE /\ batch' = Head(prefetched).val
            /\ sample_batch' = SubSeq(Head(prefetched).val, 1,
                                      Min(5, Len(Head(prefetched).val)))
            /\ drawn' = drawn + 1
            /\ pcT' = "fit"
            /\ UNCHANGED exhausted
    /\ it' = NoIterator
    /\ prefetched' = <<>>
    /\ UNCHANGED <<ds_train, batch_size, shuffle_rng>>
    /\ UNCHANGED notStreamVars

\* line 159: model.fit iterates train_dataset anew
FitIterator ==
    /\ pcT = "fit"
    /\ it' = NewIterator(shuffle_rng)
    /\ prefetched' = <<>>
    /\ pcT' = "fitting"
    /\ UNCHANGED <<ds_train, batch_size, shuffle_rng, sample_batch, batch,
                   drawn, exhausted>>
    /\ UNCHANGED notStreamVars

\* lines 159-161: one training step draws the next batch.  The draws are
\* followed for ExtraDraws batches past one epoch's steps_per_epoch.
DrawBatch ==
    /\ pcT = "fitting"
    /\ prefetched # <<>>
    /\ drawn < 1 + TrainSteps + ExtraDraws
    /\ IF Head(prefetched).end
       THEN /\ exhausted' = TRUE
            /\ pcT' = "aborted"
            /\ UNCHANGED <<batch, drawn>>
       ELSE /\ batch' = Head(prefetched).val
            /\ drawn' = drawn + 1
            /\ UNCHANGED <<exhausted, pcT>>
    /\ prefetched' = Tail(prefetched)
    /\ UNCHANGED <<ds_train, batch_size, shuffle_rng, it, sample_batch>>
    /\ UNCHANGED notStreamVars

(***************************************************************************)
(* Lines 49-74 and 107-111: config loading and the run directory, for two  *)
(* invocations that share xp_rootdir.  A directory is a record: t, the     *)
(* second its run directory is named after (NoStamp for xp_rootdir), and   *)
(* name, the child's name ("" for the run directory itself).               *)
(***************************************************************************)
NoStamp == 0 - 1

Root == [t |-> NoStamp, name |-> ""]

RunDir(t) == [t |-> t, name |-> ""]

ChildDir(t, name) == [t |-> t, name |-> name]

Parent(d) == IF d.name = "" THEN Root ELSE RunDir(d.t)

ConfigFaults ==
    {"none", "missing_file", "malformed", "no_section", "field_absent",
     "dataset_missing", "dataset_is_file"}

\* YamlNamespace(config), line 56 (framework/utils.py): building the typed
\* configuration fails when a field the run needs is absent
YamlNamespaceRejects(fault) == fault = "field_absent"

DirStart ==
    /\ clock = 0
    /\ root_existed \in BOOLEAN
    /\ fs = IF root_existed THEN {Root} ELSE {}
    /\ writable \in BOOLEAN
    /\ config_fault \in [Procs -> ConfigFaults]
    /\ pcD = [p \in Procs |-> "parse"]
    /\ xp_dir = [p \in Procs |-> NoStamp]
    /\ made = [p \in Procs |-> {}]
    /\ error = [p \in Procs |-> "none"]

DirIdle ==
    /\ clock = 0
    /\ root_existed = FALSE
    /\ fs = {}
    /\ writable = FALSE
    /\ config_fault = [p \in Procs |-> "none"]
    /\ pcD = [p \in Procs |-> "idle"]
    /\ xp_dir = [p \in Procs |-> NoStamp]
    /\ made = [p \in Procs |-> {}]
    /\ error = [p \in Procs |-> "none"]

\* An uncaught exception ends the process.
Raise(p, exc) ==
    /\ pcD' = [pcD EXCEPT ![p] = "aborted"]
    /\ error' = [error EXCEPT ![p] = exc]

\* _parse_args with its two assert statements compiled away.
ParseArgsNoAsserts(p) ==
    /\ pcD[p] = "parse"
    /\ IF config_fault[p] = "missing_file" THEN Raise(p, "FileNotFoundError")
       ELSE IF config_fault[p] = "malformed" THEN Raise(p, "YAMLError")
       ELSE IF YamlNamespaceRejects(config_fault[p]) THEN Raise(p, "ConfigError")
       ELSE IF config_fault[p] = "no_section" THEN Raise(p, "AttributeError")
       ELSE /\ pcD' = [pcD EXCEPT ![p] = "datasets"]
            /\ UNCHANGED error
    /\ UNCHANGED <<clock, fs, root_existed, writable, config_fault, xp_dir, made>>
    /\ UNCHANGED notDirVars

\* lines 49-62 and 68: _parse_args()
ParseArgs(p) ==
    /\ pcD[p] = "parse"
    /\ IF config_fault[p] = "missing_file" THEN Raise(p, "FileNotFoundError")
       ELSE IF config_fault[p] = "malformed" THEN Raise(p, "YAMLError")
       ELSE IF YamlNamespaceRejects(config_fault[p]) THEN Raise(p, "ConfigError")
       ELSE IF config_fault[p] = "no_section" THEN Raise(p, "AttributeError")
       ELSE IF Root \notin fs THEN Raise(p, "AssertionError")
       ELSE IF config_fault[p] \in {"dataset_missing", "dataset_is_file"}
       THEN Raise(p, "AssertionError")
       ELSE /\ pcD' = [pcD EXCEPT ![p] = "datasets"]
            /\ UNCHANGED error
    /\ UNCHANGED <<clock, fs, root_existed, writable, config_fault, xp_dir, made>>
    /\ UNCHANGED notDirVars

\* lines 69-105: the assert of line 74, then the datasets and the class
\* weights, which create no directory
BuildPipelines(p) ==
    /\ pcD[p] = "datasets"
    /\ IF config_fault[p] = "dataset_missing" THEN Raise(p, "AssertionError")
       ELSE /\ pcD' = [pcD EXCEPT ![p] = "stamp"]
            /\ UNCHANGED error
    /\ UNCHANGED <<clock, fs, root_existed, writable, config_fault, xp_dir, made>>
    /\ UNCHANGED notDirVars

\* The wall clock moves on.
Tick ==
    /\ clock < MaxClock
    /\ \E p \in Procs : pcD[p] \notin {"created", "aborted", "idle"}
    /\ clock' = clock + 1
    /\ UNCHANGED <<fs, root_existed, writable, config_fault, pcD, xp_dir, made,
                   error>>
    /\ UNCHANGED notDirVars

\* line 108: xp_dir = config.xp_rootdir / now().strftime("%d-%m-%Y_%H:%M:%S")
Stamp(p) ==
    /\ pcD[p] = "stamp"
    /\ xp_dir' = [xp_dir EXCEPT ![p] = clock]
    /\ pcD' = [pcD EXCEPT ![p] = "mk_tensorboard"]
    /\ UNCHANGED <<clock, fs, root_existed, writable, config_fault, made, error>>
    /\ UNCHANGED notDirVars

\* os.mkdir(d): what the system call answers
OsMkdir(d) ==
    IF d \in fs THEN "EEXIST"
    ELSE IF Parent(d) \notin fs THEN "ENOENT"
    ELSE IF ~writable THEN "EACCES"
    ELSE "ok"

ErrorOf(errno) ==
    IF errno = "EEXIST" THEN "FileExistsError"
    ELSE IF errno = "ENOENT" THEN "FileNotFoundError"
    ELSE "PermissionError"

Created(p, ds) ==
    /\ fs' = fs \cup ds
    /\ made' = [made EXCEPT ![p] = made[p] \cup (ds \ fs)]

\* line 109: Path.mkdir(parents=True), its first os.mkdir(self).  Only
\* FileNotFoundError is handled, by creating the parents; exist_ok is False
MkTensorboard(p) ==
    /\ pcD[p] = "mk_tensorboard"
    /\ LET d == ChildDir(xp_dir[p], "tensorboard")
           r == OsMkdir(d)
       IN  IF r = "ok"
           THEN /\ Created(p, {d})
                /\ pcD' = [pcD EXCEPT ![p] = "mk_plots"]
                /\ UNCHANGED error
           ELSE IF r = "ENOENT"
           THEN /\ pcD' = [pcD EXCEPT ![p] = "mk_parent"]
                /\ UNCHANGED <<fs, made, error>>
           ELSE /\ Raise(p, ErrorOf(r))
                /\ UNCHANGED <<fs, made>>
    /\ UNCHANGED <<clock, root_existed, writable, config_fault, xp_dir>>
    /\ UNCHANGED notDirVars

\* line 109, in Path.mkdir: self.parent.mkdir(parents=True, exist_ok=True).
\* A run directory that is there already is accepted; a missing
\* xp_rootdir would be created on the way.
MkParent(p) ==
    /\ pcD[p] = "mk_parent"
    /\ LET d == RunDir(xp_dir[p])
       IN  IF d \in fs
           THEN /\ pcD' = [pcD EXCEPT ![p] = "mk_tensorboard_retry"]
                /\ UNCHANGED <<fs, made, error>>
           ELSE IF ~writable
           THEN /\ Raise(p, "PermissionError")
                /\ UNCHANGED <<fs, made>>
           ELSE /\ Created(p, {Root, d})
                /\ pcD' = [pcD EXCEPT ![p] = "mk_tensorboard_retry"]
                /\ UNCHANGED error
    /\ UNCHANGED <<clock, root_existed, writable, config_fault, xp_dir>>
    /\ UNCHANGED notDirVars

\* Path.mkdir called with exist_ok=True: a directory that is there already
\* is taken as created.
MkdirChildExistOk(p, name, nxt) ==
    /\ LET d == ChildDir(xp_dir[p], name)
           r == OsMkdir(d)
       IN  IF r \in {"ok", "EEXIST"}
           THEN /\ Created(p, {d})
                /\ pcD' = [pcD EXCEPT ![p] = nxt]
                /\ UNCHANGED error
           ELSE /\ Raise(p, ErrorOf(r))
                /\ UNCHANGED <<fs, made>>
    /\ UNCHANGED <<clock, root_existed, writable, config_fault, xp_dir>>
    /\ UNCHANGED notDirVars

\* Path.mkdir(parents=False, exist_ok=False): os.mkdir, every error raised
MkdirChild(p, name, nxt) ==
    /\ LET d == ChildDir(xp_dir[p], name)
           r == OsMkdir(d)
       IN  IF r = "ok"
           THEN /\ Created(p, {d})
                /\ pcD' = [pcD EXCEPT ![p] = nxt]
                /\ UNCHANGED error
           ELSE /\ Raise(p, ErrorOf(r))
                /\ UNCHANGED <<fs, made>>
    /\ UNCHANGED <<clock, root_existed, writable, config_fault, xp_dir>>
    /\ UNCHANGED notDirVars

\* line 109, in Path.mkdir: self.mkdir(mode, parents=False, exist_ok=False)
MkTensorboardRetry(p) ==
    /\ pcD[p] = "mk_tensorboard_retry"
    /\ MkdirChild(p, "tensorboard", "mk_plots")

\* line 110: (xp_dir/'plots').mkdir()
MkPlots(p) ==
    /\ pcD[p] = "mk_plots"
    /\ MkdirChild(p, "plots", "mk_checkpoints")

\* line 111: (xp_dir/'checkpoints').mkdir()
MkCheckpoints(p) ==
    /\ pcD[p] = "mk_checkpoints"
    /\ MkdirChild(p, "checkpoints", "created")

(***************************************************************************)
(* Lines 39-46 and 117-165: model.fit with the five callbacks of lines     *)
(* 117-136.  Keras runs, per epoch: on_epoch_begin of every callback; per  *)
(* step on_train_batch_begin, the optimizer update, on_train_batch_end;    *)
(* then validation_steps forward passes; then on_epoch_end of every        *)
(* callback, in the order of the list.  An epoch of no steps, in training  *)
(* or in validation, leaves Keras without logs and raises.                 *)
(*                                                                         *)
(* Losses are integers in units of ReduceLROnPlateau's min_delta.  A file  *)
(* that holds the model is a record: path, and version, the number of      *)
(* optimizer updates the weights written to it had received.               *)
(***************************************************************************)
patience == 20

factor == [n |-> 1, d |-> 2]

MinDelta == 1

Losses == 0..MaxLoss

\* PlotCallback defined as a per-batch hook.
PlotHookBatch == "train_batch_begin"

\* line 39: PlotCallback defines on_epoch_begin, and no other hook
PlotHook == "epoch_begin"

\* ModelCheckpoint(filepath=..., save_best_only=False) of lines 124-127
\* leaves save_freq at 'epoch'; TensorBoard(update_freq='epoch'), line 121
SaveFreq == "epoch"

\* A file path that does not name the epoch.
CheckpointPathFixed(e) == 1

\* line 125: 'checkpoints/epoch{epoch}', formatted by ModelCheckpoint with
\* epoch + 1
CheckpointPath(e) == e + 1

\* to write a file: a file of that path is replaced
WriteFile(files, path, version) ==
    {f \in files : f.path # path} \cup {[path |-> path, version |-> version]}

\* ReduceLROnPlateau.monitor_op in 'min' mode: np.less(a, b - min_delta)
Improved(current) == best = <<>> \/ current < best[1] - MinDelta

\* The comparison with patience made strict.
PlateauReachedLate(w) == w > patience

\* ReduceLROnPlateau.on_epoch_end: self.wait >= self.patience (line 132)
PlateauReached(w) == w >= patience

TrainFileCounts == {4, 10}

TrainBatchSizes == {1, 5}

TrainStart ==
    /\ \E n \in TrainFileCounts, b \in TrainBatchSizes :
          /\ steps_per_epoch = (n - ValsetSize(n)) \div b
          /\ validation_steps = ValsetSize(n) \div b
    /\ epochs \in {1, 2, MaxEpochs}
    /\ pcF = "fit"
    /\ epoch = 0
    /\ step = 0
    /\ val_step = 0
    /\ updates = 0
    /\ val_loss = 0
    /\ lr = [n |-> 1, d |-> 1000]
    /\ best = <<>>
    /\ wait = 0
    /\ plots = {}
    /\ checkpoints = {}
    /\ saves = 0
    /\ csv_rows = 0
    /\ events = <<>>
    /\ begun_early = FALSE
    /\ epoch_ends = 0
    /\ flat = 0
    /\ lr_at_improve = [n |-> 1, d |-> 1000]

TrainIdle ==
    /\ steps_per_epoch = 0
    /\ validation_steps = 0
    /\ epochs = 0
    /\ pcF = "idle"
    /\ epoch = 0
    /\ step = 0
    /\ val_step = 0
    /\ updates = 0
    /\ val_loss = 0
    /\ lr = [n |-> 0, d |-> 1]
    /\ best = <<>>
    /\ wait = 0
    /\ plots = {}
    /\ checkpoints = {}
    /\ saves = 0
    /\ csv_rows = 0
    /\ events = <<>>
    /\ begun_early = FALSE
    /\ epoch_ends = 0
    /\ flat = 0
    /\ lr_at_improve = [n |-> 0, d |-> 1]

\* line 159: model.fit(...) begins; on_train_begin resets the scheduler
FitBegin ==
    /\ pcF = "fit"
    /\ best' = <<>>
    /\ wait' = 0
    /\ pcF' = "epoch_begin"
    /\ UNCHANGED <<epochs, steps_per_epoch, validation_steps, epoch, step,
                   val_step, updates, val_loss, lr, plots, checkpoints, saves,
                   csv_rows, events, begun_early, epoch_ends, flat,
                   lr_at_improve>>
    /\ UNCHANGED notTrainVars

\* callbacks.on_epoch_begin(epoch): PlotCallback.on_epoch_begin, lines
\* 39-46, runs the model on sample_batch and writes plot_<n>_epoch<epoch>
OnEpochBegin ==
    /\ pcF = "epoch_begin"
    /\ plots' = IF PlotHook = "epoch_begin"
                THEN WriteFile(plots, epoch, updates) ELSE plots
    /\ begun_early' =
          (begun_early \/ (events # <<>> /\ events[Len(events)] # "end"))
    /\ events' = <<"begin">>
    /\ step' = 0
    /\ val_step' = 0
    /\ pcF' = "train"
    /\ UNCHANGED <<epochs, steps_per_epoch, validation_steps, epoch, updates,
                   val_loss, lr, best, wait, checkpoints, saves, csv_rows,
                   epoch_ends, flat, lr_at_improve>>
    /\ UNCHANGED notTrainVars

\* one training step: on_train_batch_begin, the update, on_train_batch_end
TrainStep ==
    /\ pcF = "train"
    /\ step < steps_per_epoch
    /\ plots' = IF PlotHook = "train_batch_begin"
                THEN WriteFile(plots, epoch, updates) ELSE plots
    /\ updates' = updates + 1
    /\ step' = step + 1
    /\ checkpoints' = IF SaveFreq = "epoch" THEN checkpoints
                      ELSE WriteFile(checkpoints, CheckpointPath(epoch), updates')
    /\ saves' = IF SaveFreq = "epoch" THEN saves ELSE saves + 1
    /\ events' = events
                  \o (IF PlotHook = "train_batch_begin" THEN <<"read">> ELSE <<>>)
                  \o <<"update">>
                  \o (IF SaveFreq = "epoch" THEN <<>> ELSE <<"read">>)
    /\ pcF' = IF step' = steps_per_epoch THEN "validate" ELSE "train"
    /\ UNCHANGED <<epochs, steps_per_epoch, validation_steps, epoch, val_step,
                   val_loss, lr, best, wait, csv_rows, begun_early,
                   epoch_ends, flat, lr_at_improve>>
    /\ UNCHANGED notTrainVars

\* one validation step: a forward pass, no update; the last one settles
\* the epoch's val_loss
ValStep ==
    /\ pcF = "validate"
    /\ val_step < validation_steps
    /\ val_step' = val_step + 1
    /\ events' = Append(events, "val")
    /\ IF val_step' = validation_steps
       THEN /\ val_loss' \in Losses
            /\ pcF' = "epoch_end"
       ELSE UNCHANGED <<val_loss, pcF>>
    /\ UNCHANGED <<epochs, steps_per_epoch, validation_steps, epoch, step,
                   updates, lr, best, wait, plots, checkpoints, saves,
                   csv_rows, begun_early, epoch_ends, flat, lr_at_improve>>
    /\ UNCHANGED notTrainVars

\* an epoch of no steps: Keras raises, the run ends
EmptyEpoch ==
    /\ \/ pcF = "train" /\ steps_per_epoch = 0
       \/ pcF = "validate" /\ validation_steps = 0
    /\ pcF' = "aborted"
    /\ UNCHANGED <<epochs, steps_per_epoch, validation_steps, epoch, step,
                   val_step, updates, val_loss, lr, best, wait, plots,
                   checkpoints, saves, csv_rows, events, begun_early,
                   epoch_ends, flat, lr_at_improve>>
    /\ UNCHANGED notTrainVars

\* callbacks.on_epoch_end(epoch, logs): TensorBoard, ModelCheckpoint (a
\* save every epoch, save_best_only=False), CSVLogger, ReduceLROnPlateau
\* (patience=20, factor=0.5; cooldown 0 and min_lr 0 by default).  Nothing
\* here stops the training.
OnEpochEnd ==
    /\ pcF = "epoch_end"
    /\ checkpoints' = WriteFile(checkpoints, CheckpointPath(epoch), updates)
    /\ saves' = saves + 1
    /\ csv_rows' = csv_rows + 1
    /\ IF Improved(val_loss)
       THEN /\ best' = <<val_loss>>
            /\ wait' = 0
            /\ lr' = lr
            /\ flat' = 0
            /\ lr_at_improve' = lr
       ELSE /\ best' = best
            /\ flat' = flat + 1
            /\ lr_at_improve' = lr_at_improve
            /\ IF PlateauReached(wait + 1)
               THEN /\ lr' = RatMul(lr, factor)
                    /\ wait' = 0
               ELSE /\ lr' = lr
                    /\ wait' = wait + 1
    /\ events' = Append(events, "end")
    /\ epoch_ends' = epoch_ends + 1
    /\ epoch' = epoch + 1
    /\ pcF' = IF epoch + 1 = epochs THEN "done" ELSE "epoch_begin"
    /\ UNCHANGED <<epochs, steps_per_epoch, validation_steps, step, val_step,
                   updates, val_loss, plots, begun_early>>
    /\ UNCHANGED notTrainVars

(***************************************************************************)
(* The specifications.                                                     *)
(***************************************************************************)
InitSplit == SplitStart /\ WeightsIdle /\ StreamIdle /\ DirIdle /\ TrainIdle

NextSplit ==
    \E p \in Procs : SeedRandom(p) \/ Glob(p) \/ Shuffle(p) \/ HoldOut(p)

SpecSplit == InitSplit /\ [][NextSplit]_vars

InitWeights == WeightsStart /\ SplitIdle /\ StreamIdle /\ DirIdle /\ TrainIdle

NextWeights == ZeroWeights \/ FillWeights

SpecWeights == InitWeights /\ [][NextWeights]_vars

InitStream == StreamStart /\ SplitIdle /\ WeightsIdle /\ DirIdle /\ TrainIdle

NextStream ==
    TakeIterator \/ Prefetch \/ TakeSampleBatch \/ FitIterator \/ DrawBatch

SpecStream == InitStream /\ [][NextStream]_vars

InitDir == DirStart /\ SplitIdle /\ WeightsIdle /\ StreamIdle /\ TrainIdle

NextDir ==
    \/ Tick
    \/ \E p \in Procs :
          \/ ParseArgs(p) \/ BuildPipelines(p) \/ Stamp(p)
          \/ MkTensorboard(p) \/ MkParent(p) \/ MkTensorboardRetry(p)
          \/ MkPlots(p) \/ MkCheckpoints(p)

SpecDir == InitDir /\ [][NextDir]_vars

InitTrain == TrainStart /\ SplitIdle /\ WeightsIdle /\ StreamIdle /\ DirIdle

NextTrain ==
    FitBegin \/ OnEpochBegin \/ TrainStep \/ ValStep \/ EmptyEpoch \/ OnEpochEnd

SpecTrain == InitTrain /\ [][NextTrain]_vars

(***************************************************************************)
(* C1: for every file list of size N >= 1, once the split is made the      *)
(* validation set is the first valset_size = floor(N / 10) elements of the *)
(* permuted list and the training set is the remaining N - valset_size     *)
(* elements; the two are disjoint and together hold every listed file      *)
(* exactly once.                                                           *)
(***************************************************************************)
C1_Partition ==
    \A p \in Procs :
        (pcS[p] = "split" /\ Len(listing) >= 1) =>
            LET N == Len(listing)
            IN  /\ 10 * valset_size[p] <= N
                /\ N < 10 * (valset_size[p] + 1)
                /\ trainset_size[p] = N - valset_size[p]
                /\ Len(val_files[p]) = valset_size[p]
                /\ Len(train_files[p]) = trainset_size[p]
                /\ val_files[p] \o train_files[p] = permuted[p]
                /\ Range(val_files[p]) \cap Range(train_files[p]) = {}
                /\ Range(val_files[p]) \cup Range(train_files[p]) = Range(listing)
                /\ NoDuplicates(val_files[p] \o train_files[p])

C1_Witness ==
    \E p \in Procs :
        /\ pcS[p] = "split"
        /\ valset_size[p] = 2
        /\ trainset_size[p] > 17
        /\ permuted[p] # listing

(***************************************************************************)
(* C2: two invocations over the same file list and the same seed end with  *)
(* the same train/validation partition, whatever state their generators    *)
(* started in and whatever else differs between them.                      *)
(***************************************************************************)
C2_SameSplit ==
    (\A p \in Procs : pcS[p] = "split") =>
        /\ train_files[1] = train_files[2]
        /\ val_files[1] = val_files[2]

C2_Witness ==
    /\ \A p \in Procs : pcS[p] = "split"
    /\ Len(val_files[1]) >= 1
    /\ permuted[2] # listing
    /\ n_cpus[1] # n_cpus[2]
    /\ rng[1] = rng[2]

(***************************************************************************)
(* C3: for every table with count[i] > 0 for all i >= 2, the weight vector *)
(* has weight[0] = weight[1] = 0 and weight[i] > 0 for i >= 2, the sum     *)
(* over i >= 2 of weight[i] * count[i] equals the sum of count[2:], and    *)
(* the counts [100, 50, 10, 40] give the weights [0, 0, 5/2, 5/8].         *)
(***************************************************************************)
RECURSIVE WeightedSumFrom(_, _, _, _)
WeightedSumFrom(w, c, i, n) ==
    IF i >= n THEN RatOfInt(0)
    ELSE RatAdd(RatMul(w[i], RatOfInt(c[i])), WeightedSumFrom(w, c, i + 1, n))

C3_Balancing ==
    pcW = "done" =>
        /\ class_weight[0] = RatOfInt(0)
        /\ class_weight[1] = RatOfInt(0)
        /\ \A i \in 2..(N_CLASSES - 1) : RatLess(RatOfInt(0), class_weight[i])
        /\ WeightedSumFrom(class_weight, TRAIN_CLASS_COUNTS, 2, N_CLASSES)
              = RatOfInt(SumFrom(TRAIN_CLASS_COUNTS, 2, N_CLASSES))
        /\ (N_CLASSES = 4 /\ TRAIN_CLASS_COUNTS[0] = 100
              /\ TRAIN_CLASS_COUNTS[1] = 50 /\ TRAIN_CLASS_COUNTS[2] = 10
              /\ TRAIN_CLASS_COUNTS[3] = 40) =>
                /\ class_weight[2] = [n |-> 5, d |-> 2]
                /\ class_weight[3] = [n |-> 5, d |-> 8]

C3_Witness ==
    /\ pcW = "done"
    /\ N_CLASSES = 4
    /\ TRAIN_CLASS_COUNTS[0] = 100 /\ TRAIN_CLASS_COUNTS[1] = 50
    /\ TRAIN_CLASS_COUNTS[2] = 10 /\ TRAIN_CLASS_COUNTS[3] = 40
    /\ class_weight[3] = [n |-> 5, d |-> 8]

(***************************************************************************)
(* C4, as stated: the weights of the classes 2..N_CLASSES-1 have           *)
(* arithmetic mean 1.                                                      *)
(***************************************************************************)
RECURSIVE RatSumFrom(_, _, _)
RatSumFrom(w, i, n) ==
    IF i >= n THEN RatOfInt(0) ELSE RatAdd(w[i], RatSumFrom(w, i + 1, n))

MeanWeight == RatDiv(RatSumFrom(class_weight, 2, N_CLASSES),
                     RatOfInt(N_CLASSES - 2))

AllCountsEqual ==
    \A i, j \in 2..(N_CLASSES - 1) : TRAIN_CLASS_COUNTS[i] = TRAIN_CLASS_COUNTS[j]

C4_MeanIsOne == pcW = "done" => MeanWeight = RatOfInt(1)

(***************************************************************************)
(* C4, amended: the arithmetic mean of the weights of the classes          *)
(* 2..N_CLASSES-1 is at least 1, and is 1 exactly when those classes all   *)
(* have the same count.                                                    *)
(***************************************************************************)
C4_MeanAtLeastOne ==
    pcW = "done" =>
        /\ ~RatLess(MeanWeight, RatOfInt(1))
        /\ (MeanWeight = RatOfInt(1)) <=> AllCountsEqual

C4_Witness ==
    /\ pcW = "done"
    /\ N_CLASSES = 4
    /\ TRAIN_CLASS_COUNTS[2] = 10 /\ TRAIN_CLASS_COUNTS[3] = 40
    /\ MeanWeight = [n |-> 25, d |-> 16]

(***************************************************************************)
(* C5, as stated: for any finite dataset and any batch_size > 0 the train  *)
(* stream never ends, and every batch drawn from it holds exactly          *)
(* batch_size samples.                                                     *)
(***************************************************************************)
StreamSupplies ==
    /\ ~exhausted
    /\ \A i \in 1..Len(prefetched) :
          ~prefetched[i].end /\ Len(prefetched[i].val) = batch_size
    /\ pcT \in {"taking", "fitting"} => ~it.ended
    /\ drawn > 0 => Len(batch) = batch_size

C5_AnyDataset == pcT # "idle" => StreamSupplies

(***************************************************************************)
(* C5, amended: for any dataset whose training set is not empty and any    *)
(* batch_size > 0 the train stream never ends: every draw, up to           *)
(* train_steps and any number of batches beyond, succeeds, and every batch *)
(* drawn holds exactly batch_size samples.                                 *)
(***************************************************************************)
C5_NonEmptyDataset == (pcT # "idle" /\ Len(ds_train) >= 1) => StreamSupplies

C5_Witness ==
    /\ pcT = "fitting"
    /\ Len(ds_train) = 10
    /\ batch_size = 3
    /\ drawn = 1 + TrainSteps + ExtraDraws
    /\ it.passes >= 2
    /\ Len(batch) = 3

(***************************************************************************)
(* C6: ReduceLROnPlateau (patience 20, factor 0.5).  Over a validation     *)
(* loss that stays flat after its last improvement, the learning rate is   *)
(* halved exactly once within 21 flat epochs: it is untouched while fewer  *)
(* than 20 flat epochs have passed, it is halved at the end of the 20th    *)
(* flat epoch, which is the 21st epoch counted from the epoch of the       *)
(* improvement, and the 21st flat epoch does not halve it again.           *)
(***************************************************************************)
C6_HalvedOnce ==
    pcF # "idle" =>
        /\ flat < patience => lr = lr_at_improve
        /\ flat \in {patience, patience + 1} =>
              /\ RatMul(lr, RatOfInt(2)) = lr_at_improve
              /\ lr = RatMul(lr_at_improve, factor)

C6_Witness ==
    /\ flat = patience + 1
    /\ wait = 1
    /\ RatMul(lr, RatOfInt(2)) = lr_at_improve
    /\ best = <<1>>

(***************************************************************************)
(* C7: a configuration failure (config file missing or malformed, a        *)
(* required field absent, xp_rootdir or dataset_folder not an existing     *)
(* directory) ends the run before it creates any directory: an invocation  *)
(* gets past config loading, and creates the run directory or one of its   *)
(* children, only when its configuration loaded and both paths were        *)
(* directories.                                                            *)
(***************************************************************************)
ConfigGood(p) == config_fault[p] = "none" /\ root_existed

PastTensorboard(p) == pcD[p] \in {"mk_plots", "mk_checkpoints", "created"}

C8_OneOwner ==
    \A p, q \in Procs :
        (p # q /\ xp_dir[p] # NoStamp /\ xp_dir[p] = xp_dir[q]) =>
            /\ ~(PastTensorboard(p) /\ PastTensorboard(q))
            /\ (pcD[p] = "created" /\ pcD[q] = "aborted") =>
                  error[q] = "FileExistsError"

C8_Witness ==
    \E p, q \in Procs :
        /\ p # q
        /\ xp_dir[p] = xp_dir[q]
        /\ pcD[p] = "created"
        /\ pcD[q] = "aborted"
        /\ error[q] = "FileExistsError"
        /\ made[q] = {RunDir(xp_dir[q])}

(***************************************************************************)
(* C9: in every epoch the callbacks of on_epoch_begin come first, the      *)
(* visualizer reading the weights as they stand before any update of that  *)
(* epoch; then all steps_per_epoch optimizer updates; then all             *)
(* validation_steps forward passes; then the callbacks of on_epoch_end,    *)
(* the checkpoint holding the weights after the epoch's last update.  No   *)
(* callback reads the model between two steps of an epoch, and no epoch    *)
(* begins before the one before it has ended.                              *)
(***************************************************************************)
ExpectedEvents ==
    <<"begin">> \o [i \in 1..steps_per_epoch |-> "update"]
                \o [i \in 1..validation_steps |-> "val"] \o <<"end">>

C9_EpochOrder ==
    pcF # "idle" =>
        /\ Len(events) <= Len(ExpectedEvents)
        /\ \A i \in 1..Len(events) : events[i] = ExpectedEvents[i]
        /\ ~begun_early
        /\ \A f \in plots : f.version = f.path * steps_per_epoch
        /\ \A f \in checkpoints : f.version = f.path * steps_per_epoch
        /\ pcF = "epoch_begin" => (events = <<>> \/ events = ExpectedEvents)

C9_Witness ==
    /\ pcF = "done"
    /\ epochs = 2
    /\ steps_per_epoch = 9
    /\ validation_steps = 1
    /\ events = ExpectedEvents
    /\ plots = {[path |-> 0, version |-> 0], [path |-> 1, version |-> 9]}

(***************************************************************************)
(* C10: a run of E epochs that no fatal error ends runs all E epochs:      *)
(* when it is over on_epoch_end has fired exactly E times and the          *)
(* checkpoints directory holds one checkpoint per epoch, each at a path of *)
(* its own and none overwritten, whatever the validation losses were and   *)
(* whether or not the learning rate was reduced.                           *)
(***************************************************************************)
C10_FullRun ==
    /\ pcF = "done" =>
          /\ epoch = epochs
          /\ epoch_ends = epochs
          /\ csv_rows = epochs
          /\ saves = epochs
          /\ {f.path : f \in checkpoints} = 1..epochs
          /\ Cardinality(checkpoints) = epochs
          /\ \A f \in checkpoints : f.version = f.path * steps_per_epoch
    /\ pcF \in {"epoch_begin", "train", "validate", "epoch_end"} =>
          /\ epoch < epochs
          /\ {f.path : f \in checkpoints} = 1..epoch

C10_Witness ==
    /\ pcF = "done"
    /\ epochs = MaxEpochs
    /\ Cardinality(checkpoints) = MaxEpochs
    /\ lr # lr_at_improve
    /\ val_loss = 2

=============================================================================
